---- MODULE Spec2Model ----
(***************************************************************************)
(* Model of neurons/miner.py: the miner's run, main(config), from the      *)
(* creation of the bittensor objects through bootstrap of the starting     *)
(* model, the gradient-accumulation epoch loop with best-checkpoint        *)
(* tracking, the gated publish and the finally block.                      *)
(*                                                                         *)
(* Collaborators (bittensor, taoverse, pretrain, wandb, torch) are calls   *)
(* whose effect is recorded in the observation variables io, ckpt,         *)
(* save_calls, wandb_run, ... and which may raise.  Floats are exact       *)
(* rationals <<num, den>> in lowest terms; math.inf is Inf.  The model's   *)
(* parameters are identified by the number of optimizer steps applied to   *)
(* them (n_acc_steps), which is the only thing that changes them.          *)
(***************************************************************************)
EXTENDS Integers, Sequences, FiniteSets, TLC

\* ------------------------------------------------------------------ bounds
\* Largest finite --num_epochs drawn, and the cap on epochs in unbounded mode.
MaxEpochs == 2
\* Largest number of micro-batches one epoch's loader yields.
MaxBatches == 3
\* Largest --accumulation_steps drawn.
MaxAcc == 2
\* --num_epochs default: the sentinel for "infinite".
Unbounded == -1
\* --avg_loss_upload_threshold default.
DefaultThreshold == 0

\* outputs.loss of a micro-batch (a cross-entropy: never negative).
LossValues == {0, 1, 3}
\* --avg_loss_upload_threshold values drawn (0 is the default).
Thresholds == {DefaultThreshold, 2}

\* ------------------------------------------------------------------ floats
RECURSIVE GCD(_, _)
GCD(a, b) == IF b = 0 THEN a ELSE GCD(b, a % b)

\* math.inf
Inf == <<1, 0>>

IsInf(x) == x[2] = 0

\* a / b for a >= 0, b > 0, as an exact value in lowest terms.
Div(a, b) == LET g == GCD(a, b) IN <<a \div g, b \div g>>

\* An int or integral float as a float.
Float(n) == <<n, 1>>

\* x < y on non-negative floats and math.inf (inf < inf is False).
Less(x, y) ==
    IF IsInf(x) THEN FALSE
    ELSE IF IsInf(y) THEN TRUE
    ELSE x[1] * y[2] < y[1] * x[2]

\* ------------------------------------------------------------------ config
\* The values a selector option can hold.  load_uid is an int or None;
\* load_model_dir and load_model are a str or None.
UidValues == {"None", "0", "7"}
PathValues == {"None", "", "path"}

\* Python truthiness of an option value: None, "" and 0 are falsy.
Truthy(v) == v \notin {"None", "", "0"}

Selectors ==
    [load_best : BOOLEAN, load_uid : UidValues,
     load_model_dir : PathValues, load_model : PathValues]

\* The selector settings drawn by the training specification.
TrainSelectors ==
    { [load_best |-> FALSE, load_uid |-> "None",
       load_model_dir |-> "None", load_model |-> "None"],
      [load_best |-> TRUE, load_uid |-> "None",
       load_model_dir |-> "None", load_model |-> "path"] }

\* (wandb_project, wandb_entity)
WandbSettings == { <<"proj", "None">>, <<"proj", "ent">> }

Config(sel, off, wb, known, ne, k, thr) ==
    [ offline |-> off,
      wandb_project |-> wb[1],
      wandb_entity |-> wb[2],
      avg_loss_upload_threshold |-> Float(thr),
      load_best |-> sel.load_best,
      load_uid |-> sel.load_uid,
      load_model_dir |-> sel.load_model_dir,
      load_model |-> sel.load_model,
      num_epochs |-> ne,
      accumulation_steps |-> k,
      competition_known |-> known ]

VARIABLES
    config,          \* the parsed options (get_config), fixed for the run
    pc,              \* position in main
    err,             \* the exception propagating out of main, or "none"
    io,              \* the network / registry operations performed so far
    run_dir,         \* os.makedirs(model_dir) has run
    use_wandb,       \* main's use_wandb
    source,          \* the loader load_starting_model invoked, or "none"
    ckpt,            \* the checkpoint in model_dir: <<>> or <<epoch, version>>
    save_calls,      \* calls of pt.mining.save
    wandb_run,       \* "None", "open" (wandb.init returned) or "finished"
    finish_calls,    \* calls of wandb_run.finish
    epoch_step,
    global_step,
    n_acc_steps,
    n_batches,
    epoch_loss,
    best_avg_loss,
    best_epoch,      \* the epoch (1-based) that set best_avg_loss, 0 for none
    grads,           \* backward passes in the gradient buffer since zero_grad
    epoch_opt_steps, \* optimizer.step calls since the epoch began
    outcome,         \* the branch of the publish decision taken, or "NONE"
    model_to_upload, \* the checkpoint reloaded for the push, or <<>>
    published        \* the checkpoint pt.mining.push published, or <<>>

vars == <<config, pc, err, io, run_dir, use_wandb, source, ckpt, save_calls,
          wandb_run, finish_calls, epoch_step, global_step, n_acc_steps,
          n_batches, epoch_loss, best_avg_loss, best_epoch, grads,
          epoch_opt_steps, outcome, model_to_upload, published>>

\* Variable groups, for UNCHANGED.
setupVars == <<io, run_dir, use_wandb, source>>
wandbVars == <<wandb_run, finish_calls>>
trainVars == <<epoch_step, global_step, n_acc_steps, n_batches, epoch_loss,
               best_avg_loss, best_epoch, grads, epoch_opt_steps>>
diskVars == <<ckpt, save_calls>>
publishVars == <<outcome, model_to_upload, published>>

\* The state main starts from; the loop's locals hold the values lines
\* 328-331 give them.
InitState(c) ==
    /\ config = c
    /\ pc = "connect"
    /\ err = "none"
    /\ io = {}
    /\ run_dir = FALSE
    /\ use_wandb = FALSE
    /\ source = "none"
    /\ ckpt = <<>>
    /\ save_calls = 0
    /\ wandb_run = "None"
    /\ finish_calls = 0
    /\ epoch_step = 0
    /\ global_step = 0
    /\ n_acc_steps = 0
    /\ n_batches = 0
    /\ epoch_loss = 0
    /\ best_avg_loss = Inf
    /\ best_epoch = 0
    /\ grads = 0
    /\ epoch_opt_steps = 0
    /\ outcome = "NONE"
    /\ model_to_upload = <<>>
    /\ published = <<>>

Init ==
    \E sel \in TrainSelectors, off \in BOOLEAN, wb \in WandbSettings,
       known \in BOOLEAN, ne \in {Unbounded} \cup (0 .. MaxEpochs),
       k \in 1 .. MaxAcc, thr \in Thresholds :
        InitState(Config(sel, off, wb, known, ne, k, thr))

\* ------------------------------------------------------------------ raising
\* Positions inside main's try block (lines 334-436).
TryPcs == {"loop", "batch", "gate", "reload", "push"}

\* An exception e raised at the current position: inside the try block the
\* finally clause runs next, outside it main is left at once.
Raise(e) ==
    /\ err' = e
    /\ pc' = IF pc \in TryPcs THEN "finally" ELSE "failed"

\* ------------------------------------------------------------------ startup
\* Lines 242-249: wallet, subtensor, metagraph, chain metadata store.
Connect ==
    /\ pc = "connect"
    /\ io' = io \cup {"chain", "metagraph"}
    /\ \/ pc' = "register" /\ err' = err
       \/ Raise("ConnectionError")
    /\ UNCHANGED <<config, run_dir, use_wandb, source, wandbVars, trainVars,
                   diskVars, publishVars>>

\* Lines 251-255: online, the miner must be registered and hold a hugging
\* face access token.
Register ==
    /\ pc = "register"
    /\ IF ~config.offline
       THEN /\ io' = io \cup {"assert_registered"}
            /\ \/ pc' = "mkdir" /\ err' = err
               \/ Raise("NotRegistered")
       ELSE /\ io' = io
            /\ pc' = "mkdir"
            /\ err' = err
    /\ UNCHANGED <<config, run_dir, use_wandb, source, wandbVars, trainVars,
                   diskVars, publishVars>>

\* Lines 262-269 without the offline test.
UseWandbIgnoresOffline(c) ==
    IF c.wandb_project = "None" \/ c.wandb_entity = "None" THEN FALSE ELSE TRUE

\* Lines 262-269: use_wandb.
UseWandb(c) ==
    IF ~c.offline
    THEN IF c.wandb_project = "None" \/ c.wandb_entity = "None"
         THEN FALSE
         ELSE TRUE
    ELSE FALSE

\* Lines 257-269: the run directory, and whether wandb is used.
MakeRunDir ==
    /\ pc = "mkdir"
    /\ run_dir' = TRUE
    /\ use_wandb' = UseWandb(config)
    /\ pc' = "constraints"
    /\ UNCHANGED <<config, err, io, source, wandbVars, trainVars, diskVars,
                   publishVars>>

\* Lines 271-278: MODEL_CONSTRAINTS_BY_COMPETITION_ID.get(competition_id).
LookupConstraints ==
    /\ pc = "constraints"
    /\ IF ~config.competition_known
       THEN Raise("RuntimeError")
       ELSE pc' = "tokenizer" /\ err' = err
    /\ UNCHANGED <<config, setupVars, wandbVars, trainVars, diskVars,
                   publishVars>>

\* Line 282: pt.model.load_tokenizer.
LoadTokenizer ==
    /\ pc = "tokenizer"
    /\ \/ pc' = "load_model" /\ err' = err
       \/ Raise("TokenizerError")
    /\ UNCHANGED <<config, setupVars, wandbVars, trainVars, diskVars,
                   publishVars>>

\* load_starting_model with a truthiness test on load_uid: uid 0 falls
\* through to the local sources.
ResolveSourceUidTruthy(c) ==
    IF c.load_best THEN "best"
    ELSE IF Truthy(c.load_uid) THEN "uid"
    ELSE IF Truthy(c.load_model_dir) THEN "local_dir"
    ELSE IF Truthy(c.load_model) THEN "local_file"
    ELSE "scratch"

\* load_starting_model (lines 180-231): the loader it calls.
ResolveSource(c) ==
    IF c.load_best THEN "best"
    ELSE IF c.load_uid # "None" THEN "uid"
    ELSE IF Truthy(c.load_model_dir) THEN "local_dir"
    ELSE IF Truthy(c.load_model) THEN "local_file"
    ELSE "scratch"

\* The registry / hub operations a loader performs.
SourceIO(src) ==
    IF src = "best" THEN {"load_best_model"}
    ELSE IF src = "uid" THEN {"load_remote_model"}
    ELSE {}

\* Lines 283-285: the starting model.
LoadStartingModel ==
    /\ pc = "load_model"
    /\ source' = ResolveSource(config)
    /\ io' = io \cup SourceIO(ResolveSource(config))
    /\ \/ pc' = "save_initial" /\ err' = err
       \/ Raise("LoadError")
    /\ UNCHANGED <<config, run_dir, use_wandb, wandbVars, trainVars, diskVars,
                   publishVars>>

\* pt.mining.save that leaves an existing checkpoint in place.
SaveKeepsFirst(e, ok) ==
    /\ save_calls' = save_calls + 1
    /\ ckpt' = IF ok /\ ckpt = <<>> THEN <<e, n_acc_steps>> ELSE ckpt

\* pt.mining.save(model, model_dir) called in epoch e on the in-memory
\* model: the checkpoint is overwritten in place, or the call raises and the
\* directory keeps what it held.
Save(e, ok) ==
    /\ save_calls' = save_calls + 1
    /\ ckpt' = IF ok THEN <<e, n_acc_steps>> ELSE ckpt

\* Lines 287-291: the starting model is saved and the optimizer built.
SaveInitial ==
    /\ pc = "save_initial"
    /\ \E ok \in BOOLEAN :
         /\ Save(0, ok)
         /\ IF ok THEN pc' = "wandb" /\ err' = err ELSE Raise("SaveError")
    /\ UNCHANGED <<config, setupVars, wandbVars, trainVars, publishVars>>

\* Lines 292-316 and 322-325: the wandb run is started when use_wandb.
\* WANDB_API_KEY is read from the environment here.
WandbInit ==
    /\ pc = "wandb"
    /\ IF use_wandb
       THEN \E token \in BOOLEAN :
              IF ~token
              THEN Raise("ValueError") /\ UNCHANGED <<io, wandb_run>>
              ELSE /\ io' = io \cup {"wandb"}
                   /\ \/ /\ wandb_run' = "open"
                         /\ pc' = "wandb_save"
                         /\ err' = err
                      \/ /\ Raise("WandbError")
                         /\ UNCHANGED wandb_run
       ELSE /\ pc' = "loop"
            /\ err' = err
            /\ UNCHANGED <<io, wandb_run>>
    /\ UNCHANGED <<config, run_dir, use_wandb, source, finish_calls, trainVars,
                   diskVars, publishVars>>

\* Lines 318-321: wandb_run.save registers the model directory.
WandbSave ==
    /\ pc = "wandb_save"
    /\ \/ pc' = "loop" /\ err' = err
       \/ Raise("WandbError")
    /\ UNCHANGED <<config, setupVars, wandbVars, trainVars, diskVars,
                   publishVars>>

\* ------------------------------------------------------------------ training
\* Line 335 without the sentinel test.
LoopCondNoSentinel(c, e) == e < c.num_epochs

\* Line 335 with <= for <.
LoopCondOffByOne(c, e) == e <= c.num_epochs \/ c.num_epochs = Unbounded

\* Line 335: the while condition.
LoopCond(c, e) == e < c.num_epochs \/ c.num_epochs = Unbounded

\* Lines 336-358 with the optimizer-step counter initialised per epoch.
BeginEpochResetsSteps ==
    /\ epoch_loss' = 0
    /\ n_batches' = 0
    /\ grads' = 0
    /\ epoch_opt_steps' = 0
    /\ n_acc_steps' = 0
    /\ UNCHANGED global_step

\* Lines 336-358 without optimizer.zero_grad() at line 358.
BeginEpochKeepsGrads ==
    /\ epoch_loss' = 0
    /\ n_batches' = 0
    /\ epoch_opt_steps' = 0
    /\ UNCHANGED <<grads, global_step, n_acc_steps>>

\* Lines 336-358: an epoch begins: epoch_loss and n_batches restart and the
\* gradients are zeroed; the run's counters carry over.
BeginEpoch ==
    /\ epoch_loss' = 0
    /\ n_batches' = 0
    /\ grads' = 0
    /\ epoch_opt_steps' = 0
    /\ UNCHANGED <<global_step, n_acc_steps>>

\* Lines 335-358: the loop test; an epoch begins, or the loop is left for
\* line 406.  In the unbounded mode the model stops starting epochs after
\* MaxEpochs of them.
LoopTest ==
    /\ pc = "loop"
    /\ IF LoopCond(config, epoch_step)
       THEN /\ epoch_step < MaxEpochs
            /\ BeginEpoch
            /\ pc' = "batch"
       ELSE /\ pc' = "gate"
            /\ UNCHANGED <<epoch_loss, n_batches, grads, epoch_opt_steps,
                           global_step, n_acc_steps>>
    /\ UNCHANGED <<config, err, setupVars, wandbVars, diskVars, publishVars,
                   epoch_step, best_avg_loss, best_epoch>>

\* Line 370 with the test on i instead of i + 1.
StepDueOffByOne(i, k) == i % k = 0

\* Line 370: whether micro-batch i (0-indexed) ends an accumulation window.
StepDue(i, k) == (i + 1) % k = 0

\* Lines 360-387: one micro-batch of the loader, with loss its outputs.loss.
\* enumerate's i equals n_batches throughout.  The forward/backward pass may
\* raise, and so may wandb_run.log after the optimizer step.
Batch ==
    /\ pc = "batch"
    /\ n_batches < MaxBatches
    /\ \E loss \in LossValues :
         \/ /\ Raise("TrainError")
            /\ UNCHANGED trainVars
         \/ /\ StepDue(n_batches, config.accumulation_steps)
            /\ n_acc_steps' = n_acc_steps + 1
            /\ epoch_opt_steps' = epoch_opt_steps + 1
            /\ grads' = 0
            /\ \/ /\ use_wandb
                  /\ Raise("WandbError")
                  /\ UNCHANGED <<n_batches, global_step, epoch_loss>>
               \/ /\ n_batches' = n_batches + 1
                  /\ global_step' = global_step + 1
                  /\ epoch_loss' = epoch_loss + loss
                  /\ UNCHANGED <<pc, err>>
            /\ UNCHANGED <<epoch_step, best_avg_loss, best_epoch>>
         \/ /\ ~StepDue(n_batches, config.accumulation_steps)
            /\ grads' = grads + 1
            /\ n_batches' = n_batches + 1
            /\ global_step' = global_step + 1
            /\ epoch_loss' = epoch_loss + loss
            /\ UNCHANGED <<pc, err, n_acc_steps, epoch_opt_steps, epoch_step,
                           best_avg_loss, best_epoch>>
    /\ UNCHANGED <<config, setupVars, wandbVars, diskVars, publishVars>>

\* Line 397 with <= for <.
EpochImprovesOrEqual(avg, best) == ~Less(best, avg)

\* Line 397 with the comparison inverted.
EpochImprovesInverted(avg, best) == Less(best, avg)

\* Line 397: the improvement test.
EpochImproves(avg, best) == Less(avg, best)

\* Lines 390-394 with the epoch counted before its average is computed.
EmptyEpochCounted ==
    /\ epoch_step' = epoch_step + 1
    /\ Raise("ZeroDivisionError")
    /\ UNCHANGED <<best_avg_loss, best_epoch, diskVars>>

\* Line 390 when n_batches is 0: the division raises ZeroDivisionError.
EmptyEpoch ==
    /\ Raise("ZeroDivisionError")
    /\ UNCHANGED <<epoch_step, best_avg_loss, best_epoch, diskVars>>

\* Lines 389-404: the loader is exhausted.  The division raises
\* ZeroDivisionError when the epoch had no batch; otherwise the epoch is
\* counted and, on a strict improvement, the model saved.
EpochEnd ==
    /\ pc = "batch"
    /\ IF n_batches = 0
       THEN EmptyEpoch
       ELSE LET avg_loss == Div(epoch_loss, n_batches) IN
            /\ epoch_step' = epoch_step + 1
            /\ IF EpochImproves(avg_loss, best_avg_loss)
               THEN /\ best_avg_loss' = avg_loss
                    /\ best_epoch' = epoch_step + 1
                    /\ \E ok \in BOOLEAN :
                         /\ Save(epoch_step + 1, ok)
                         /\ IF ok THEN pc' = "loop" /\ err' = err
                                  ELSE Raise("SaveError")
               ELSE /\ pc' = "loop"
                    /\ err' = err
                    /\ UNCHANGED <<best_avg_loss, best_epoch, diskVars>>
    /\ UNCHANGED <<config, setupVars, wandbVars, publishVars, global_step,
                   n_acc_steps, n_batches, epoch_loss, grads, epoch_opt_steps>>

\* An operator signal (KeyboardInterrupt / task cancellation) arriving while
\* the training loop runs: it propagates like any exception raised there.
Cancel ==
    /\ pc \in {"loop", "batch"}
    /\ Raise("Cancelled")
    /\ UNCHANGED <<config, setupVars, wandbVars, trainVars, diskVars,
                   publishVars>>

\* ------------------------------------------------------------------ publish
\* Line 409 with <= for <.
BelowThresholdOrEqual(best, thr) == ~Less(thr, best)

\* Line 409: the upload test.
BelowThreshold(best, thr) == Less(best, thr)

\* Lines 406-436: the publish decision.
PublishGate ==
    /\ pc = "gate"
    /\ IF ~config.offline
       THEN IF BelowThreshold(best_avg_loss, config.avg_loss_upload_threshold)
            THEN outcome' = "PUBLISHED" /\ pc' = "reload"
            ELSE outcome' = "SKIPPED_THRESHOLD" /\ pc' = "finally"
       ELSE outcome' = "SKIPPED_OFFLINE" /\ pc' = "finally"
    /\ UNCHANGED <<config, err, setupVars, wandbVars, trainVars, diskVars,
                   model_to_upload, published>>

\* Lines 417-419 replaced by the in-memory training model.
InMemoryModel == <<epoch_step, n_acc_steps>>

\* Lines 417-419: pt.mining.load_local_model(model_dir, ...) returns what
\* the run directory holds.
ReloadedModel == ckpt

\* Lines 414-419: the best model is reloaded from the run directory.
Reload ==
    /\ pc = "reload"
    /\ \/ /\ model_to_upload' = ReloadedModel
          /\ pc' = "push"
          /\ err' = err
       \/ /\ Raise("LoadError")
          /\ UNCHANGED model_to_upload
    /\ UNCHANGED <<config, setupVars, wandbVars, trainVars, diskVars,
                   outcome, published>>

\* Lines 421-427 with a failed push sent back to the reload for another try.
PushRetried ==
    /\ pc = "push"
    /\ io' = io \cup {"push"}
    /\ \/ /\ published' = model_to_upload
          /\ pc' = "finally"
          /\ err' = err
       \/ /\ pc' = "reload"
          /\ err' = err
          /\ UNCHANGED published
    /\ UNCHANGED <<config, run_dir, use_wandb, source, wandbVars, trainVars,
                   diskVars, outcome, model_to_upload>>

\* Lines 421-427: pt.mining.push of the reloaded model.
Push ==
    /\ pc = "push"
    /\ io' = io \cup {"push"}
    /\ \/ /\ published' = model_to_upload
          /\ pc' = "finally"
          /\ err' = err
       \/ /\ Raise("PublishError")
          /\ UNCHANGED published
    /\ UNCHANGED <<config, run_dir, use_wandb, source, wandbVars, trainVars,
                   diskVars, outcome, model_to_upload>>

\* Lines 438-441: the finally clause.
Finally ==
    /\ pc = "finally"
    /\ IF wandb_run = "open"
       THEN wandb_run' = "finished" /\ finish_calls' = finish_calls + 1
       ELSE UNCHANGED wandbVars
    /\ pc' = IF err = "none" THEN "done" ELSE "failed"
    /\ UNCHANGED <<config, err, setupVars, trainVars, diskVars, publishVars>>

Next ==
    \/ Connect
    \/ Register
    \/ MakeRunDir
    \/ LookupConstraints
    \/ LoadTokenizer
    \/ LoadStartingModel
    \/ SaveInitial
    \/ WandbInit
    \/ WandbSave
    \/ LoopTest
    \/ Batch
    \/ EpochEnd
    \/ Cancel
    \/ PublishGate
    \/ Reload
    \/ Push
    \/ Finally

Spec == Init /\ [][Next]_vars

\* Every selector setting, with a short training run behind it.
InitBoot ==
    \E sel \in Selectors, off \in BOOLEAN,
       wb \in WandbSettings, thr \in Thresholds :
        InitState(Config(sel, off, wb, TRUE, 1, 1, thr))

SpecBoot == InitBoot /\ [][Next]_vars

\* ------------------------------------------------------------------ claims
\* main has returned or an exception has left it.
Terminated == pc \in {"done", "failed"}

\* x <= y on floats.
LessEq(x, y) == x = y \/ Less(x, y)

\* C1: at the end of a run that leaves the training loop normally the
\* outcome is SKIPPED_OFFLINE whenever offline is set, SKIPPED_THRESHOLD
\* whenever online with best_avg_loss >= threshold, and PUBLISHED, with the
\* reload and the push, only when online with best_avg_loss < threshold.
C1_PublishGateOutcome ==
    LET thr == config.avg_loss_upload_threshold
        below == /\ ~IsInf(best_avg_loss)
                 /\ best_avg_loss[1] * thr[2] < thr[1] * best_avg_loss[2]
        decided == outcome # "NONE"
    IN /\ (pc = "done" => decided)
       /\ (decided /\ config.offline => outcome = "SKIPPED_OFFLINE")
       /\ (decided /\ ~config.offline /\ ~below => outcome = "SKIPPED_THRESHOLD")
       /\ (decided /\ ~config.offline /\ below => outcome = "PUBLISHED")
       /\ (pc \in {"reload", "push"} \/ model_to_upload # <<>> \/ "push" \in io
             => outcome = "PUBLISHED" /\ ~config.offline /\ below)
       /\ (pc = "done" /\ outcome = "PUBLISHED" => published # <<>>)

\* C1 witness: an online run below the threshold has reloaded and pushed.
C1_Witness ==
    /\ pc = "done"
    /\ outcome = "PUBLISHED"
    /\ "push" \in io
    /\ published = ckpt

\* C2: in the epoch loop pt.mining.save is called at the end of an epoch if
\* and only if the epoch's average loss is strictly less than best_avg_loss
\* as it was before the epoch; otherwise nothing is written.
C2_SaveIffImproved ==
    [][ /\ (epoch_step' = epoch_step + 1 =>
              LET avg == Div(epoch_loss, n_batches) IN
              IF Less(avg, best_avg_loss)
              THEN save_calls' = save_calls + 1
              ELSE save_calls' = save_calls /\ ckpt' = ckpt)
        /\ (pc \in TryPcs /\ epoch_step' = epoch_step =>
              save_calls' = save_calls /\ ckpt' = ckpt) ]_vars

\* C2 witness: the first epoch wrote a checkpoint, the second did not.
C2_Witness ==
    /\ epoch_step = 2
    /\ save_calls = 2
    /\ ckpt # <<>>
    /\ ckpt[1] = 1

\* C3: best_avg_loss starts at +infinity, never rises, changes only when an
\* epoch completes, and is then the minimum of its old value and the
\* epoch's average loss (so always the minimum over the epochs completed).
C3_BestIsRunningMin ==
    /\ best_avg_loss = Inf
    /\ [][ /\ LessEq(best_avg_loss', best_avg_loss)
           /\ (epoch_step' = epoch_step => best_avg_loss' = best_avg_loss)
           /\ (epoch_step' = epoch_step + 1 =>
                 LET avg == Div(epoch_loss, n_batches) IN
                 /\ LessEq(best_avg_loss', avg)
                 /\ best_avg_loss' \in {avg, best_avg_loss}) ]_vars

\* C3 witness: two epochs completed and each one lowered best_avg_loss.
C3_Witness ==
    /\ epoch_step = 2
    /\ save_calls = 3
    /\ ~IsInf(best_avg_loss)

\* C4: with accumulation_steps = k, after m micro-batches of an epoch
\* exactly floor(m / k) optimizer steps were applied in it, and the m mod k
\* micro-batches after the last one sit in the gradient buffer without a step.
C4_OptimizerStepsPerEpoch ==
    err = "none" =>
        /\ epoch_opt_steps = n_batches \div config.accumulation_steps
        /\ grads = n_batches % config.accumulation_steps

\* C4 witness: an epoch of 3 micro-batches with k = 2 ended with one step
\* and one leftover micro-batch.
C4_Witness ==
    /\ pc = "loop"
    /\ epoch_step >= 1
    /\ config.accumulation_steps = 2
    /\ n_batches = 3
    /\ epoch_opt_steps = 1
    /\ grads = 1

\* The sources in priority order, and whether a config sets each.
PriorityOrder == <<"best", "uid", "local_dir", "local_file">>

IsSet(c, s) ==
    CASE s = "best" -> c.load_best
      [] s = "uid" -> c.load_uid \in {"0", "7"}
      [] s = "local_dir" -> c.load_model_dir = "path"
      [] s = "local_file" -> c.load_model = "path"

FirstSet(c) ==
    LET set == {i \in 1 .. Len(PriorityOrder) : IsSet(c, PriorityOrder[i])}
    IN IF set = {} THEN "scratch"
       ELSE PriorityOrder[CHOOSE i \in set : \A j \in set : i <= j]

\* C5: load_starting_model resolves the model from exactly the first set
\* selector in the order best, uid, local directory, local file, and from
\* scratch only when none is set; no remote fetch of a lower-priority
\* source happens.  (A path selector is set when it is a non-empty string.)
C5_SourcePrecedence ==
    source # "none" =>
        /\ source = FirstSet(config)
        /\ ("load_best_model" \in io <=> source = "best")
        /\ ("load_remote_model" \in io <=> source = "uid")

\* C5 witness: load_best together with load_model resolved via best.
C5_Witness ==
    /\ config.load_best
    /\ config.load_model = "path"
    /\ source = "best"
    /\ pc = "save_initial"

\* C6: with a finite epoch budget n the loop never runs an (n+1)-th epoch,
\* goes on while fewer than n epochs are complete, and line 406 is reached
\* only with epoch_step = n.
C6_ExactlyBudgetEpochs ==
    config.num_epochs # Unbounded =>
        /\ epoch_step <= config.num_epochs
        /\ (pc = "batch" => epoch_step < config.num_epochs)
        /\ (pc = "loop" /\ epoch_step < config.num_epochs => ENABLED LoopTest)
        /\ (pc = "gate" \/ outcome # "NONE" => epoch_step = config.num_epochs)

\* C6 witness: a budget of 2 epochs ran to the end.
C6_Witness ==
    /\ config.num_epochs = 2
    /\ epoch_step = 2
    /\ pc = "done"

\* C7: an epoch with no batch counted cannot complete: the only steps out
\* of it that count no batch are raises (ZeroDivisionError when the loader
\* is exhausted, a failing first batch, a cancellation), which leave
\* epoch_step, best_avg_loss and the checkpoint alone; and after
\* ZeroDivisionError nothing is retried or written.
C7_EmptyEpochRaises ==
    [][ /\ (pc = "batch" /\ n_batches = 0 /\ n_batches' = 0 =>
              /\ pc' = "finally"
              /\ err' \in {"ZeroDivisionError", "Cancelled", "TrainError",
                          "WandbError"}
              /\ epoch_step' = epoch_step
              /\ best_avg_loss' = best_avg_loss
              /\ save_calls' = save_calls
              /\ ckpt' = ckpt)
        /\ (err = "ZeroDivisionError" =>
              /\ err' = err
              /\ pc' \in {"finally", "failed"}
              /\ epoch_step' = epoch_step
              /\ best_avg_loss' = best_avg_loss
              /\ save_calls' = save_calls
              /\ ckpt' = ckpt) ]_vars

\* C7 witness: the second epoch was empty and the run failed on it.
C7_Witness ==
    /\ err = "ZeroDivisionError"
    /\ pc = "failed"
    /\ epoch_step = 1
    /\ n_batches = 0

\* C8: after a cancellation of the training loop the publish decision is
\* still evaluated with the best_avg_loss recorded so far: an online run
\* cancelled with best_avg_loss below the threshold still attempts the push.
C8_CancelStillPublishes ==
    LET cancelledBelow ==
          /\ Terminated
          /\ err = "Cancelled"
          /\ ~config.offline
          /\ Less(best_avg_loss, config.avg_loss_upload_threshold)
    IN cancelledBelow => (outcome = "PUBLISHED" /\ "push" \in io)

\* C9: once wandb.init has returned, wandb_run.finish is called exactly
\* once on every exit path of main.
C9_RunFinishedOnce ==
    Terminated /\ wandb_run # "None" => finish_calls = 1

\* C10: an unknown competition id aborts startup before any network I/O,
\* registration check, run directory creation or model fetch.
C10_UnknownCompetitionFirst ==
    err = "RuntimeError" =>
        /\ ~config.competition_known
        /\ io = {}
        /\ ~run_dir
        /\ source = "none"

\* The operations that reach the chain, the registry or the hub without a
\* registration check, a telemetry run or a push.
OfflineIO == {"chain", "metagraph", "load_best_model", "load_remote_model"}

\* C11 as stated: with offline set no registry or network call is made at
\* any point of the run, no telemetry run is started and nothing is pushed.
C11_OfflineNoNetwork ==
    config.offline =>
        /\ io = {}
        /\ wandb_run = "None"
        /\ published = <<>>

\* C11 amended: with offline set there is no registration check, no
\* telemetry run, no publish decision other than SKIPPED_OFFLINE, no reload
\* and no push; the chain and metagraph are still opened at startup and
\* load_best / load_uid still fetch from the network.
C11_OfflineSkipsRegistrationWandbPush ==
    config.offline =>
        /\ io \subseteq OfflineIO
        /\ (pc # "connect" => {"chain", "metagraph"} \subseteq io)
        /\ (source = "best" => "load_best_model" \in io)
        /\ (source = "uid" => "load_remote_model" \in io)
        /\ ~use_wandb
        /\ wandb_run = "None"
        /\ outcome \in {"NONE", "SKIPPED_OFFLINE"}
        /\ model_to_upload = <<>>
        /\ published = <<>>

\* C11 witness: an offline run with load_best fetched the best model from
\* the network, trained and skipped the publish.
C11_Witness ==
    /\ config.offline
    /\ config.wandb_entity # "None"
    /\ pc = "done"
    /\ outcome = "SKIPPED_OFFLINE"
    /\ "load_best_model" \in io

\* C12: no telemetry failure (missing API key, wandb.init, wandb_run.save,
\* wandb_run.log) ever ends the run: none propagates out of main.
C12_TelemetryNeverAborts ==
    err \notin {"ValueError", "WandbError"}

\* C13: the publish sequence is attempted at most once: a failing reload or
\* push leads straight to the finally clause and the end of the run, the
\* push is never reached again, and nothing from the publish decision on
\* changes best_avg_loss or the checkpoint.
C13_PublishAttemptedOnce ==
    [][ /\ (pc = "reload" => pc' \in {"push", "finally"})
        /\ (pc = "push" => pc' = "finally")
        /\ (pc = "finally" => pc' \in {"done", "failed"})
        /\ (Terminated => FALSE)
        /\ ("push" \in io => pc' \notin {"gate", "reload", "push"})
        /\ (pc \in {"reload", "push"} /\ err' # "none" =>
              err' \in {"LoadError", "PublishError"} /\ published' = <<>>)
        /\ (pc \in {"gate", "reload", "push", "finally"} =>
              /\ best_avg_loss' = best_avg_loss
              /\ ckpt' = ckpt
              /\ save_calls' = save_calls) ]_vars

\* C13 witness: the push failed and the run ended with the training result
\* in place.
C13_Witness ==
    /\ pc = "failed"
    /\ err = "PublishError"
    /\ "push" \in io
    /\ published = <<>>
    /\ ckpt # <<>>
    /\ ~IsInf(best_avg_loss)

\* C14: the push is handed the model reloaded from the run directory: when
\* the push is reached the reload has happened, and what is pushed and
\* published is the checkpoint on disk, not the in-memory training model.
C14_PushesReloadedCheckpoint ==
    /\ (pc = "push" \/ "push" \in io =>
          /\ outcome = "PUBLISHED"
          /\ model_to_upload # <<>>
          /\ model_to_upload = ckpt)
    /\ (published # <<>> => published = ckpt)

\* C14 witness: the published checkpoint is older than the in-memory model,
\* which later epochs trained further without improving.
C14_Witness ==
    /\ pc = "done"
    /\ published # <<>>
    /\ published = ckpt
    /\ published[2] < n_acc_steps

\* C15: with num_epochs = -1 the loop condition holds for every epoch_step,
\* so line 406 and the publish decision are never reached: the run leaves
\* the loop only by a cancellation or an exception.
C15_UnboundedNeverFinishes ==
    config.num_epochs = Unbounded =>
        /\ \A e \in 0 .. MaxEpochs + 1 : LoopCond(config, e)
        /\ pc \notin {"gate", "reload", "push", "done"}
        /\ outcome = "NONE"
        /\ (pc \in {"finally", "failed"} => err # "none")

\* C15 witness: an unbounded run trained its epochs and ended by cancellation.
C15_Witness ==
    /\ config.num_epochs = Unbounded
    /\ epoch_step = MaxEpochs
    /\ pc = "failed"
    /\ err = "Cancelled"

\* C16: with the default upload threshold of 0 nothing is ever uploaded,
\* whatever the (non-negative) losses and the number of epochs.
C16_DefaultThresholdNeverUploads ==
    config.avg_loss_upload_threshold = Float(DefaultThreshold) =>
        /\ outcome # "PUBLISHED"
        /\ pc \notin {"reload", "push"}
        /\ "push" \notin io
        /\ model_to_upload = <<>>
        /\ published = <<>>

\* C16 witness: an online run reached an average loss of exactly 0 and was
\* still not uploaded.
C16_Witness ==
    /\ config.avg_loss_upload_threshold = Float(DefaultThreshold)
    /\ ~config.offline
    /\ best_avg_loss = Float(0)
    /\ pc = "done"
    /\ outcome = "SKIPPED_THRESHOLD"

\* A step that begins an epoch.
EpochStarts == pc = "loop" /\ pc' = "batch"

\* C17: the progress counters start at 0 and never go back: epoch_step
\* grows by 1 exactly when an epoch with at least one batch completes,
\* global_step by 1 with every micro-batch counted, n_acc_steps by 1 with
\* every optimizer step; an epoch start resets n_batches and epoch_loss only.
C17_CountersMonotonic ==
    /\ epoch_step = 0 /\ global_step = 0 /\ n_acc_steps = 0
    /\ [][ /\ epoch_step' \in {epoch_step, epoch_step + 1}
           /\ global_step' \in {global_step, global_step + 1}
           /\ n_acc_steps' \in {n_acc_steps, n_acc_steps + 1}
           /\ (epoch_step' = epoch_step + 1 =>
                 pc = "batch" /\ n_batches >= 1 /\ n_batches' = n_batches)
           /\ (pc = "batch" /\ pc' = "loop" => epoch_step' = epoch_step + 1)
           /\ (EpochStarts =>
                 /\ n_batches' = 0
                 /\ epoch_loss' = 0
                 /\ epoch_step' = epoch_step
                 /\ global_step' = global_step
                 /\ n_acc_steps' = n_acc_steps)
           /\ (~EpochStarts =>
                 /\ global_step' - global_step = n_batches' - n_batches
                 /\ n_acc_steps' - n_acc_steps
                      = epoch_opt_steps' - epoch_opt_steps) ]_vars

\* C17 witness: in the second epoch the run's counters exceed the epoch's.
C17_Witness ==
    /\ pc = "batch"
    /\ epoch_step = 1
    /\ n_batches = 1
    /\ global_step = 4
    /\ n_acc_steps = 4
    /\ epoch_opt_steps = 1

\* C18: when load_starting_model raises, nothing has been committed: no run
\* directory, no checkpoint, no telemetry run, no epoch, no publish.
C18_BootstrapFailureCommitsNothing ==
    pc = "failed" /\ err = "LoadError" /\ outcome = "NONE" =>
        /\ ~run_dir
        /\ ckpt = <<>>
        /\ save_calls = 0
        /\ wandb_run = "None"
        /\ epoch_step = 0
        /\ global_step = 0
        /\ "push" \notin io

\* The checkpoint on disk is the one written by the epoch that set
\* best_avg_loss (epoch 0: the starting model, with best_avg_loss infinite).
CkptIsBest == ckpt # <<>> /\ ckpt[1] = best_epoch

\* Whenever the outcome is PUBLISHED an epoch has completed, the checkpoint
\* is the one of the epoch that set best_avg_loss, and what is published is
\* never the starting model.
PublishedIsBestEpoch ==
    /\ (best_epoch = 0 <=> IsInf(best_avg_loss))
    /\ (outcome = "PUBLISHED" =>
          /\ epoch_step >= 1
          /\ best_epoch >= 1
          /\ CkptIsBest)
    /\ (published # <<>> => published[1] = best_epoch /\ published[1] >= 1)

\* C19 as stated: PublishedIsBestEpoch, and a checkpoint on disk always
\* is the starting model or the model of the epoch that set best_avg_loss.
C19_CheckpointAlwaysBest ==
    /\ PublishedIsBestEpoch
    /\ (ckpt # <<>> => CkptIsBest)

\* C19 amended: the same, except after a pt.mining.save call has raised:
\* then best_avg_loss is already that epoch's while the directory holds
\* the earlier checkpoint (and the run ends without a publish decision).
C19_CheckpointBestUnlessSaveRaised ==
    /\ PublishedIsBestEpoch
    /\ (ckpt # <<>> /\ err # "SaveError" => CkptIsBest)
    /\ (ckpt # <<>> /\ err = "SaveError" =>
          ckpt[1] < best_epoch /\ outcome = "NONE")

\* C19 witness: the first epoch's checkpoint was published after a second
\* epoch that did not improve on it.
C19_Witness ==
    /\ pc = "done"
    /\ epoch_step = 2
    /\ published # <<>>
    /\ published[1] = 1
    /\ best_epoch = 1

\* C20: the gradient buffer is zeroed when an epoch begins and only holds
\* micro-batches of the current epoch; every optimizer step uses exactly k
\* of them; an epoch of m micro-batches adds floor(m / k) steps and drops
\* m mod k gradients, so between micro-batches n_acc_steps * k never
\* exceeds global_step (inside one, the step at line 372 is counted before
\* the micro-batch at line 386, which a raising wandb_run.log leaves so).
C20_GradientsStayInEpoch ==
    [][ /\ (EpochStarts => grads' = 0)
        /\ (pc = "batch" => grads <= n_batches)
        /\ (n_acc_steps' = n_acc_steps + 1 =>
              /\ pc = "batch"
              /\ grads + 1 = config.accumulation_steps
              /\ grads' = 0)
        /\ (epoch_step' = epoch_step + 1 =>
              /\ epoch_opt_steps = n_batches \div config.accumulation_steps
              /\ grads = n_batches % config.accumulation_steps)
        /\ (err # "WandbError" =>
              n_acc_steps * config.accumulation_steps <= global_step)
        /\ n_acc_steps * config.accumulation_steps <= global_step + 1 ]_vars

\* C20 witness: two epochs of one micro-batch each with k = 2: two
\* micro-batches in all and no optimizer step.
C20_Witness ==
    /\ pc = "loop"
    /\ epoch_step = 2
    /\ config.accumulation_steps = 2
    /\ global_step = 2
    /\ n_acc_steps = 0
    /\ n_acc_steps < global_step \div config.accumulation_steps

====
